---------------------------- MODULE Spec2Model ----------------------------
(***************************************************************************)
(* A model of the LAMMPS post-processing scripts.                          *)
(*                                                                         *)
(*   Spec       tally_regions.py: main = parse_traj -> tally_atoms ->      *)
(*              decoration -> output_tally, one action per readline, per   *)
(*              frame tallied and per line printed.                        *)
(*   SpecScan   the region scan of tally_atoms (lines 111-118) as a pure   *)
(*              function of (coordinate, boundary list).                   *)
(*   SpecCat    catdumps.py: DumpCater.__init__ and the substitution loop  *)
(*              of DumpCater.subst_vars, one action per script line and    *)
(*              per loop iteration.                                        *)
(***************************************************************************)
EXTENDS Integers, Sequences, FiniteSets, TLC

VARIABLES
    \* tally_regions.py
    file,       \* the lines of args.input, each a sequence of fields
    pos,        \* the index of the next line readline() returns
    args,       \* the parsed command line (coordinates, axis, types, ...)
    pc,         \* where main is
    n_atoms,    \* parse_traj: the atom count of the frame being read
    time_step,  \* parse_traj: the time step of the frame being read
    coords,     \* parse_traj: the atoms read of the frame being read
    traj,       \* parse_traj: the frames read
    raw_tally,  \* tally_atoms: tallies
    tally,      \* main: the decorated tallies
    written,    \* the lines printed to args.output
    err,        \* the exception that ended the run, "" when none
    \* the region scan
    coord,      \* the coordinate classified
    boundaries, \* the separation coordinates, in the caller's order
    region,     \* the region the scan ended with
    scan_pc,
    \* catdumps.py
    script,     \* the lines of the LAMMPS script, each a sequence of fields
    line_no,    \* the number of script lines consumed by __init__
    self_vars,  \* DumpCater.vars
    dumps,      \* DumpCater.dumps
    curr,       \* subst_vars: curr
    cat_pc,
    reports     \* the number of "Undefined variable" messages printed,
                \* counted modulo MaxReports + 1

vars == <<file, pos, args, pc, n_atoms, time_step, coords, traj, raw_tally,
          tally, written, err, coord, boundaries, region, scan_pc,
          script, line_no, self_vars, dumps, curr, cat_pc, reports>>

tallyVars == <<file, pos, args, pc, n_atoms, time_step, coords, traj,
               raw_tally, tally, written, err>>
scanVars == <<coord, boundaries, region, scan_pc>>
catVars == <<script, line_no, self_vars, dumps, curr, cat_pc, reports>>

-----------------------------------------------------------------------------
(* Bounds *)

MaxFrames == 2
MaxBounds == 2
MaxScript == 3
MaxReports == 2
MaxStr == 16

-----------------------------------------------------------------------------
(* Fields of a text line, after str.split().  An "int" token is accepted   *)
(* by int() and float(), a "real" token (12.0) by float() only, a "word"   *)
(* by neither.  val is the number the token denotes (a word's is an id).   *)

I(v) == [kind |-> "int", val |-> v]
R(v) == [kind |-> "real", val |-> v]
W(v) == [kind |-> "word", val |-> v]

IntOk(f) == f.kind = "int"
FloatOk(f) == f.kind \in {"int", "real"}

HeaderLine(n) == <<I(n)>>
CommentLine(t) == <<W(1), W(2), I(t)>>
AtomLine(ty, p) == <<I(ty)>> \o [i \in 1..Len(p) |-> R(p[i])]

Atom(ty, p) == [type |-> ty, pos |-> p]
Frame(t, as) == [time |-> t, atoms |-> as]

(* The frames the input files are made of: the declared count, the time    *)
(* step of the comment line, and the atom lines that follow.               *)
SampleFrame(n, t, body) == [n |-> n, t |-> t, body |-> body]

EmptyFrame == SampleFrame(0, 100, <<>>)
ScenarioFrame ==
    SampleFrame(3, 200, << AtomLine(1, <<1, 1, 12>>),
                           AtomLine(2, <<1, 1, 5>>),
                           AtomLine(1, <<1, 1, -3>>) >>)
MixedFrame ==
    SampleFrame(2, 300, << AtomLine(1, <<15, 5, -5>>),
                           AtomLine(2, <<10, 0, 5>>) >>)
ShortFrame == SampleFrame(1, 400, << AtomLine(2, <<1, 1>>) >>)
UnderFrame == SampleFrame(2, 500, << AtomLine(1, <<0, 10, 15>>) >>)

WellFormedFrames == {EmptyFrame, ScenarioFrame, MixedFrame}
SampleFrames == WellFormedFrames \cup {ShortFrame, UnderFrame}

FrameLines(f) == <<HeaderLine(f.n), CommentLine(f.t)>> \o f.body

RECURSIVE Flatten(_)
Flatten(fs) ==
    IF fs = <<>> THEN <<>> ELSE FrameLines(Head(fs)) \o Flatten(Tail(fs))

SeqsUpTo(S, n) == UNION {[1..k -> S] : k \in 0..n}

FrameSeqs == SeqsUpTo(SampleFrames, MaxFrames)

(* Every file is a whole number of frames or such a file cut short.        *)
Files ==
    UNION { {SubSeq(Flatten(fs), 1, k) : k \in 0..Len(Flatten(fs))} :
            fs \in FrameSeqs }

(* Floats: the dyadic rationals num/den, den a power of two, on which the  *)
(* IEEE operations used here are exact.                                    *)
RECURSIVE Gcd(_, _)
Gcd(a, b) == IF b = 0 THEN a ELSE Gcd(b, a % b)

Float(num, den) ==
    LET g == Gcd(IF num < 0 THEN -num ELSE num, den)
    IN  [num |-> num \div g, den |-> den \div g]

FMul(s, f) == Float(s * f.num, f.den)
TrueDiv(i, n) == Float(i, n)

NoTypes == [given |-> FALSE, list |-> <<>>]
Types(l) == [given |-> TRUE, list |-> l]

Args ==
    [ coordinates : {<<10, 0>>, <<0, 10>>, <<5>>},
      axis : {"X", "Z"},
      types : {NoTypes, Types(<<1>>), Types(<<>>)},
      time_step : {Float(1, 1), Float(1, 2)},
      n_atoms : {1, 2} ]

ScenarioArgs ==
    [ coordinates |-> <<10, 0>>, axis |-> "Z", types |-> NoTypes,
      time_step |-> Float(1, 1), n_atoms |-> 1 ]

-----------------------------------------------------------------------------
(* tally_regions.py *)

Raise(e) ==
    /\ pc' = "error"
    /\ err' = e
    /\ UNCHANGED <<file, pos, args, n_atoms, time_step, coords, traj,
                   raw_tally, tally, written>>

AtEOF == pos > Len(file)

(* readline().split(): no fields at the end of the file *)
Fields == IF AtEOF THEN <<>> ELSE file[pos]

(* parse_traj, lines 75-78: the atom-count line, or the end of the file *)
ReadHeader ==
    /\ UNCHANGED <<scanVars, catVars>>
    /\ pc = "header"
    /\ IF AtEOF
       THEN /\ pc' = "tally"
            /\ UNCHANGED <<file, pos, args, n_atoms, time_step, coords, traj,
                           raw_tally, tally, written, err>>
       ELSE IF Len(Fields) = 1 /\ IntOk(Fields[1])
       THEN /\ n_atoms' = Fields[1].val
            /\ pos' = pos + 1
            /\ pc' = "comment"
            /\ UNCHANGED <<file, args, time_step, coords, traj, raw_tally,
                           tally, written, err>>
       ELSE Raise("ValueError")

(* FrameRead with the frame put in front of the list (traj.insert(0, ..)) *)
FrameReadFront(t, cs, n) ==
    IF Len(cs) >= n
    THEN /\ traj' = <<Frame(t, cs)>> \o traj
         /\ pc' = "header"
    ELSE /\ traj' = traj
         /\ pc' = "atoms"

(* traj.append((time_step, coords)) once the atoms of the frame are read *)
FrameRead(t, cs, n) ==
    IF Len(cs) >= n
    THEN /\ traj' = Append(traj, Frame(t, cs))
         /\ pc' = "header"
    ELSE /\ traj' = traj
         /\ pc' = "atoms"

(* parse_traj, lines 79-81: the comment line, its last field the time step *)
ReadComment ==
    /\ UNCHANGED <<scanVars, catVars>>
    /\ pc = "comment"
    /\ IF Len(Fields) = 0
       THEN Raise("IndexError")
       ELSE IF ~IntOk(Fields[Len(Fields)])
       THEN Raise("ValueError")
       ELSE /\ time_step' = Fields[Len(Fields)].val
            /\ coords' = <<>>
            /\ pos' = pos + 1
            /\ FrameRead(time_step', coords', n_atoms)
            /\ UNCHANGED <<file, args, n_atoms, raw_tally, tally, written,
                           err>>

(* ReadAtom taking the end of the file for the end of the frame *)
ReadAtomLenient ==
    /\ UNCHANGED <<scanVars, catVars>>
    /\ pc = "atoms"
    /\ IF Len(Fields) = 0
       THEN /\ traj' = Append(traj, Frame(time_step, coords))
            /\ pc' = "header"
            /\ UNCHANGED <<file, pos, args, n_atoms, time_step, coords,
                           raw_tally, tally, written, err>>
       ELSE /\ coords' = Append(coords,
                Atom(Fields[1].val,
                     [i \in 1..(Len(Fields) - 1) |-> Fields[i + 1].val]))
            /\ pos' = pos + 1
            /\ IF Len(coords') >= n_atoms
               THEN traj' = Append(traj, Frame(time_step, coords')) /\ pc' = "header"
               ELSE traj' = traj /\ pc' = "atoms"
            /\ UNCHANGED <<file, args, n_atoms, time_step, raw_tally, tally,
                           written, err>>

(* parse_traj, lines 83-87: one atom line; every field after the type id   *)
(* is a position component, however many there are                        *)
ParseAtom(fields) ==
    Atom(fields[1].val,
         [i \in 1..(Len(fields) - 1) |-> fields[i + 1].val])

ReadAtom ==
    /\ UNCHANGED <<scanVars, catVars>>
    /\ pc = "atoms"
    /\ IF Len(Fields) = 0
       THEN Raise("IndexError")
       ELSE IF \/ ~IntOk(Fields[1])
               \/ \E i \in 2..Len(Fields) : ~FloatOk(Fields[i])
       THEN Raise("ValueError")
       ELSE /\ coords' = Append(coords, ParseAtom(Fields))
            /\ pos' = pos + 1
            /\ FrameRead(time_step, coords', n_atoms)
            /\ UNCHANGED <<file, args, n_atoms, time_step, raw_tally, tally,
                           written, err>>

(* tally_atoms, line 102: the axis table *)
AxisLabels == {"X", "Y", "Z"}
AxisIndex(axis) ==
    CASE axis = "X" -> 0 [] axis = "Y" -> 1 [] axis = "Z" -> 2

(* tally_atoms, lines 103-104: set(types) *)
TypeSet(types) == {types.list[i] : i \in 1..Len(types.list)}

(* Included with the type filter ignored *)
IncludedAll(atom, types) == TRUE

(* tally_atoms, line 110 *)
Included(atom, types) == ~types.given \/ atom.type \in TypeSet(types)

(* Region with the scan stopping at a boundary equal to the coordinate *)
RECURSIVE ScanGE(_, _, _)
ScanGE(c, bs, r) ==
    IF bs = <<>> THEN r
    ELSE IF c >= Head(bs) THEN r
    ELSE ScanGE(c, Tail(bs), r + 1)

RegionGE(c, bs) == ScanGE(c, bs, 0)

(* Region as the number of boundaries not below the coordinate *)
RegionCount(c, bs) == Cardinality({i \in 1..Len(bs) : c <= bs[i]})

(* tally_atoms, lines 112-117: the sequential scan of the boundaries *)
RECURSIVE Scan(_, _, _)
Scan(c, bs, r) ==
    IF bs = <<>> THEN r
    ELSE IF c > Head(bs) THEN r
    ELSE Scan(c, Tail(bs), r + 1)

Region(c, bs) == Scan(c, bs, 0)

(* tally_atoms, lines 108-118: the tally of one frame; position idx of a   *)
(* shorter position is an IndexError                                       *)
RECURSIVE CountAtoms(_, _, _, _, _)
CountAtoms(atoms, bs, idx, types, counts) ==
    IF atoms = <<>> THEN counts
    ELSE LET atom == Head(atoms)
             r == Region(atom.pos[idx + 1], bs)
         IN  CountAtoms(Tail(atoms), bs, idx, types,
                 IF Included(atom, types)
                 THEN [counts EXCEPT ![r + 1] = @ + 1]
                 ELSE counts)

IndexFails(atoms, idx, types) ==
    \E i \in 1..Len(atoms) :
        Included(atoms[i], types) /\ Len(atoms[i].pos) < idx + 1

FrameTally(atoms, bs, idx, types) ==
    CountAtoms(atoms, bs, idx, types, [i \in 1..(Len(bs) + 1) |-> 0])

(* TallyStart with the axis looked up only once there is a frame to tally *)
TallyStartLazy ==
    /\ UNCHANGED <<scanVars, catVars>>
    /\ pc = "tally"
    /\ IF args.axis \notin {"X", "Y", "Z"} /\ traj # <<>>
       THEN Raise("KeyError")
       ELSE /\ raw_tally' = <<>>
            /\ pc' = "tally_loop"
            /\ UNCHANGED <<file, pos, args, n_atoms, time_step, coords, traj,
                           tally, written, err>>

(* tally_atoms, lines 102-106: before the loop over the frames *)
TallyStart ==
    /\ UNCHANGED <<scanVars, catVars>>
    /\ pc = "tally"
    /\ IF args.axis \notin AxisLabels
       THEN Raise("KeyError")
       ELSE /\ raw_tally' = <<>>
            /\ pc' = "tally_loop"
            /\ UNCHANGED <<file, pos, args, n_atoms, time_step, coords, traj,
                           tally, written, err>>

(* tally_atoms, lines 107-123: one frame of the loop, or the return *)
TallyFrame ==
    /\ UNCHANGED <<scanVars, catVars>>
    /\ pc = "tally_loop"
    /\ IF Len(raw_tally) = Len(traj)
       THEN /\ pc' = "decorate"
            /\ UNCHANGED <<file, pos, args, n_atoms, time_step, coords, traj,
                           raw_tally, tally, written, err>>
       ELSE LET frame == traj[Len(raw_tally) + 1]
                idx == AxisIndex(args.axis)
            IN  IF IndexFails(frame.atoms, idx, args.types)
                THEN Raise("IndexError")
                ELSE /\ raw_tally' = Append(raw_tally,
                            [time |-> frame.time,
                             counts |-> FrameTally(frame.atoms,
                                 args.coordinates, idx, args.types)])
                     /\ UNCHANGED <<file, pos, args, pc, n_atoms, time_step,
                                    coords, traj, tally, written, err>>

(* main, lines 54-57 *)
DecorateOne(t) ==
    [time |-> FMul(t.time, args.time_step),
     counts |-> [i \in 1..Len(t.counts) |->
                    TrueDiv(t.counts[i], args.n_atoms)]]

Decorate ==
    /\ UNCHANGED <<scanVars, catVars>>
    /\ pc = "decorate"
    /\ tally' = [i \in 1..Len(raw_tally) |-> DecorateOne(raw_tally[i])]
    /\ pc' = "output"
    /\ UNCHANGED <<file, pos, args, n_atoms, time_step, coords, traj,
                   raw_tally, written, err>>

(* StrFloat printing a whole number as an int is printed *)
StrFloatAsInt(f) ==
    IF f.den = 1 THEN ToString(f.num)
    ELSE ToString(f.num \div f.den) \o "." \o
         (IF f.den = 2 THEN "5" ELSE IF f.num % 4 = 1 THEN "25" ELSE "75")

(* str() of a float: the shortest decimal that reads back as the float,    *)
(* always with a fractional part                                           *)
Frac(f) ==
    CASE f.den = 1 -> "0"
      [] f.den = 2 -> "5"
      [] f.den = 4 -> IF f.num % 4 = 1 THEN "25" ELSE "75"

StrFloat(f) == ToString(f.num \div f.den) \o "." \o Frac(f)

RECURSIVE Join(_)
Join(ss) ==
    IF Len(ss) = 1 THEN ss[1] ELSE ss[1] \o " " \o Join(Tail(ss))

(* output_tally, lines 129-131 *)
FormatLine(t) ==
    Join(<<StrFloat(t.time)>> \o
         [i \in 1..Len(t.counts) |-> StrFloat(t.counts[i])])

(* output_tally, lines 128-133: one line printed, or the return *)
WriteLine ==
    /\ UNCHANGED <<scanVars, catVars>>
    /\ pc = "output"
    /\ IF Len(written) = Len(tally)
       THEN /\ pc' = "done"
            /\ written' = written
       ELSE /\ written' = Append(written, FormatLine(tally[Len(written) + 1]))
            /\ pc' = pc
    /\ UNCHANGED <<file, pos, args, n_atoms, time_step, coords, traj,
                   raw_tally, tally, err>>

ScanIdle == coord = 0 /\ boundaries = <<>> /\ region = 0 /\ scan_pc = "idle"
CatIdle ==
    /\ script = <<>> /\ line_no = 0 /\ self_vars = <<>> /\ dumps = <<>>
    /\ curr = <<>> /\ cat_pc = "idle" /\ reports = 0

Init ==
    /\ file \in Files
    /\ args \in Args
    /\ pos = 1
    /\ pc = "header"
    /\ n_atoms = 0
    /\ time_step = 0
    /\ coords = <<>>
    /\ traj = <<>>
    /\ raw_tally = <<>>
    /\ tally = <<>>
    /\ written = <<>>
    /\ err = ""
    /\ ScanIdle
    /\ CatIdle

Next ==
    \/ ReadHeader
    \/ ReadComment
    \/ ReadAtom
    \/ TallyStart
    \/ TallyFrame
    \/ Decorate
    \/ WriteLine

Spec == Init /\ [][Next]_vars

(* tally_atoms called on its own, as the module-level function it is: the  *)
(* trajectories are those parse_traj returns, the axis any label (main's   *)
(* argparse choices do not guard a direct call).                           *)
ParseFrame(f) == Frame(f.t, [i \in 1..Len(f.body) |-> ParseAtom(f.body[i])])

ParsedFrames ==
    {ParseFrame(f) : f \in WellFormedFrames \cup {ShortFrame}}

BoundVals == {0, 5, 10}
CoordVals == {-5, 0, 3, 5, 7, 10, 15}

TallyArgs ==
    [ coordinates : SeqsUpTo(BoundVals, MaxBounds),
      axis : {"X", "Y", "Z", "W"},
      types : {NoTypes, Types(<<1>>), Types(<<2, 2>>), Types(<<>>)},
      time_step : {Float(1, 1)},
      n_atoms : {1} ]

InitTally ==
    /\ file = <<>>
    /\ pos = 1
    /\ args \in TallyArgs
    /\ pc = "tally"
    /\ n_atoms = 0
    /\ time_step = 0
    /\ coords = <<>>
    /\ traj \in SeqsUpTo(ParsedFrames, MaxFrames)
    /\ raw_tally = <<>>
    /\ tally = <<>>
    /\ written = <<>>
    /\ err = ""
    /\ ScanIdle
    /\ CatIdle

NextTally ==
    \/ TallyStart
    \/ TallyFrame

SpecTally == InitTally /\ [][NextTally]_vars

-----------------------------------------------------------------------------
(* The region scan on its own *)

TallyIdle ==
    /\ file = <<>> /\ pos = 1 /\ args = ScenarioArgs /\ pc = "idle"
    /\ n_atoms = 0 /\ time_step = 0 /\ coords = <<>> /\ traj = <<>>
    /\ raw_tally = <<>> /\ tally = <<>> /\ written = <<>> /\ err = ""

InitScan ==
    /\ coord \in CoordVals
    /\ boundaries \in SeqsUpTo(BoundVals, MaxBounds)
    /\ region = 0
    /\ scan_pc = "start"
    /\ TallyIdle
    /\ CatIdle

Classify ==
    /\ scan_pc = "start"
    /\ region' = Region(coord, boundaries)
    /\ scan_pc' = "done"
    /\ UNCHANGED <<coord, boundaries, tallyVars, catVars>>

NextScan == Classify

SpecScan == InitScan /\ [][NextScan]_vars

-----------------------------------------------------------------------------
(* catdumps.py.  A string is the sequence of its characters; a script line *)
(* is the sequence of its fields (line.split()).                           *)

VARIABLE_ == <<"v", "a", "r", "i", "a", "b", "l", "e">>
DUMP_ == <<"d", "u", "m", "p">>
RUN_ == <<"r", "u", "n">>

WordChars == {"a", "b", "c", "p", "x", "y", "_"}

RefA == <<"$", "{", "a", "}">>
RefB == <<"$", "{", "b", "}">>
RefC == <<"$", "{", "c", "}">>

VariableLine(name, value) == <<VARIABLE_, name, <<"x">>, value>>
DumpLine(path) == <<DUMP_, <<"x">>, path>>

ScriptLines ==
    { VariableLine(<<"a">>, <<"x">> \o RefB),
      VariableLine(<<"a">>, <<"$", "{">>),
      VariableLine(<<"a">>, <<"p">>),
      VariableLine(<<"b">>, <<"y">>),
      VariableLine(<<"b">>, RefA),
      VariableLine(<<"b">>, RefA \o <<"b", "}">>),
      DumpLine(<<"p", ".", "*">>),
      DumpLine(RefA \o <<".">> \o RefB \o RefA),
      DumpLine(RefB),
      DumpLine(RefA \o <<"b", "}">>),
      DumpLine(<<"p">> \o RefC),
      <<RUN_>>,
      <<>> }

(* var_ref.search(s) succeeds at position i: "${", then as many word      *)
(* characters as there are (the name, possibly empty), then "}"            *)
NameEnd(s, i) ==
    CHOOSE j \in (i + 2)..(Len(s) + 1) :
        /\ \A k \in (i + 2)..(j - 1) : s[k] \in WordChars
        /\ j = Len(s) + 1 \/ s[j] \notin WordChars

MatchAt(s, i) ==
    /\ i + 2 <= Len(s)
    /\ s[i] = "$"
    /\ s[i + 1] = "{"
    /\ NameEnd(s, i) <= Len(s)
    /\ s[NameEnd(s, i)] = "}"

HasMatch(s) == \E i \in 1..Len(s) : MatchAt(s, i)

(* the leftmost match, and match.group('name') *)
FirstMatch(s) ==
    CHOOSE i \in 1..Len(s) :
        MatchAt(s, i) /\ \A j \in 1..(i - 1) : ~MatchAt(s, j)

MatchName(s) ==
    SubSeq(s, FirstMatch(s) + 2, NameEnd(s, FirstMatch(s)) - 1)

(* ''.join(['${', var_name, '}']) *)
RefTo(name) == <<"$", "{">> \o name \o <<"}">>

(* str.replace(old, new): every occurrence not overlapping an earlier one, *)
(* from the left                                                           *)
RECURSIVE Replace(_, _, _)
Replace(s, old, new) ==
    IF Len(s) < Len(old) THEN s
    ELSE IF SubSeq(s, 1, Len(old)) = old
    THEN new \o Replace(SubSeq(s, Len(old) + 1, Len(s)), old, new)
    ELSE <<Head(s)>> \o Replace(Tail(s), old, new)

(* SetVar keeping the first declaration of a name (dict.setdefault) *)
SetVarKeep(m, name, value) ==
    [n \in DOMAIN m \cup {name} |-> IF n \in DOMAIN m THEN m[n] ELSE value]

(* self.vars[name] = value *)
SetVar(m, name, value) ==
    [n \in DOMAIN m \cup {name} |-> IF n = name THEN value ELSE m[n]]

(* subst_vars, lines 72-84: the undefined name; the message is printed and *)
(* the loop goes on with curr as it was                                    *)
Undefined ==
    /\ reports' = (reports + 1) % (MaxReports + 1)
    /\ UNCHANGED <<script, line_no, self_vars, dumps, curr, cat_pc>>

(* subst_vars, lines 72-86: one iteration of the loop, or the return to    *)
(* __init__, which appends the result to dumps.  A string longer than      *)
(* MaxStr is not followed further.                                         *)
SubstStep ==
    /\ cat_pc = "subst"
    /\ UNCHANGED <<tallyVars, scanVars>>
    /\ IF ~HasMatch(curr)
       THEN /\ dumps' = Append(dumps, curr)
            /\ cat_pc' = "init"
            /\ UNCHANGED <<script, line_no, self_vars, curr, reports>>
       ELSE IF MatchName(curr) \in DOMAIN self_vars
       THEN /\ curr' = Replace(curr, RefTo(MatchName(curr)),
                               self_vars[MatchName(curr)])
            /\ Len(curr') <= MaxStr
            /\ UNCHANGED <<script, line_no, self_vars, dumps, cat_pc, reports>>
       ELSE Undefined

(* __init__, lines 47-60: one line of the script *)
InitLine ==
    /\ cat_pc = "init"
    /\ line_no < Len(script)
    /\ UNCHANGED <<tallyVars, scanVars>>
    /\ line_no' = line_no + 1
    /\ LET fields == script[line_no + 1]
       IN  IF Len(fields) = 0
           THEN UNCHANGED <<script, self_vars, dumps, curr, cat_pc, reports>>
           ELSE IF fields[1] = VARIABLE_
           THEN IF Len(fields) < 2
                THEN /\ cat_pc' = "error"
                     /\ UNCHANGED <<script, self_vars, dumps, curr, reports>>
                ELSE /\ self_vars' = SetVar(self_vars, fields[2],
                                            fields[Len(fields)])
                     /\ UNCHANGED <<script, dumps, curr, cat_pc, reports>>
           ELSE IF fields[1] = DUMP_
           THEN /\ curr' = fields[Len(fields)]
                /\ cat_pc' = "subst"
                /\ UNCHANGED <<script, self_vars, dumps, reports>>
           ELSE UNCHANGED <<script, self_vars, dumps, curr, cat_pc, reports>>

(* __init__, line 62 *)
InitReturn ==
    /\ cat_pc = "init"
    /\ line_no = Len(script)
    /\ cat_pc' = "done"
    /\ UNCHANGED <<script, line_no, self_vars, dumps, curr, reports>>
    /\ UNCHANGED <<tallyVars, scanVars>>

InitCat ==
    /\ script \in SeqsUpTo(ScriptLines, MaxScript)
    /\ line_no = 0
    /\ self_vars = <<>>
    /\ dumps = <<>>
    /\ curr = <<>>
    /\ cat_pc = "init"
    /\ reports = 0
    /\ TallyIdle
    /\ ScanIdle

NextCat ==
    \/ InitLine
    \/ InitReturn
    \/ SubstStep

(* The interpreter runs the loops on: a step that can be taken is taken.   *)
SpecCat == InitCat /\ [][NextCat]_vars /\ WF_vars(NextCat)

-----------------------------------------------------------------------------
(* Properties of tally_regions.py *)

RECURSIVE Sum(_)
Sum(q) == IF q = <<>> THEN 0 ELSE Head(q) + Sum(Tail(q))

IsPrefix(p, q) == Len(p) <= Len(q) /\ SubSeq(q, 1, Len(p)) = p

(* An atom passes the filter: no filter, or its type is listed *)
Passes(ty) ==
    ~args.types.given \/ \E j \in 1..Len(args.types.list) : args.types.list[j] = ty

NumPassing(atoms) ==
    Cardinality({i \in 1..Len(atoms) : Passes(atoms[i].type)})

(* The index (from 0) of the first boundary below c, Len(bs) when none is *)
FirstBelow(c, bs) ==
    IF \E i \in 1..Len(bs) : c > bs[i]
    THEN (CHOOSE i \in 1..Len(bs) :
            /\ c > bs[i]
            /\ \A j \in 1..(i - 1) : ~(c > bs[j])) - 1
    ELSE Len(bs)

(* C1: the counts of every frame tallied sum to the number of its atoms    *)
(* that pass the type filter (all of them without a filter), and there is  *)
(* one count per region.                                                   *)
C1_CountsSumToIncluded ==
    \A k \in 1..Len(raw_tally) :
        /\ Len(raw_tally[k].counts) = Len(args.coordinates) + 1
        /\ Sum(raw_tally[k].counts) = NumPassing(traj[k].atoms)

C1_Witness ==
    /\ pc = "decorate"
    /\ args.types.given
    /\ args.coordinates = <<0, 10>>
    /\ \E k \in 1..Len(raw_tally) :
          /\ Sum(raw_tally[k].counts) > 0
          /\ Sum(raw_tally[k].counts) < Len(traj[k].atoms)

(* C2: the scan ends with the index of the first boundary the coordinate   *)
(* is greater than, or the number of boundaries when there is none; for    *)
(* [10, 0]: 15 -> 0, 5 -> 1, -5 -> 2, 10 -> 1, 0 -> 2.                       *)
C2_RegionIsFirstBoundaryBelow ==
    scan_pc = "done" =>
        /\ region = FirstBelow(coord, boundaries)
        /\ boundaries = <<10, 0>> =>
              /\ coord = 15 => region = 0
              /\ coord = 5 => region = 1
              /\ coord = -5 => region = 2
              /\ coord = 10 => region = 1
              /\ coord = 0 => region = 2

C2_Witness ==
    scan_pc = "done" /\ boundaries = <<10, 0>> /\ coord = 10 /\ region = 1

(* The line main prints for a well-formed frame, from the lines of the     *)
(* frame: the scaled time, then per region the number of passing atoms     *)
(* whose first boundary below is that region, over the group size.         *)
ExpectedLine(f) ==
    LET idx == AxisIndex(args.axis)
        cnt(r) == Cardinality({i \in 1..Len(f.body) :
                      /\ Passes(f.body[i][1].val)
                      /\ FirstBelow(f.body[i][idx + 2].val,
                                    args.coordinates) = r})
    IN  FormatLine([time |-> Float(f.t * args.time_step.num,
                                   args.time_step.den),
                    counts |-> [r \in 1..(Len(args.coordinates) + 1) |->
                                   Float(cnt(r - 1), args.n_atoms)]])

WellFormedSeqs == SeqsUpTo(WellFormedFrames, MaxFrames)

(* C3: a well-formed file of n frames never fails, the lines written are   *)
(* at all times the first lines of the frames' lines in input order, and   *)
(* the finished run has written n of them (none for an empty file, an      *)
(* all-zero line for a frame with no included atom).                       *)
C3_OneLinePerFrameInOrder ==
    \A fs \in WellFormedSeqs :
        file = Flatten(fs) =>
            /\ pc # "error"
            /\ IsPrefix(written, [i \in 1..Len(fs) |-> ExpectedLine(fs[i])])
            /\ pc = "done" => Len(written) = Len(fs)

C3_Witness ==
    /\ pc = "done"
    /\ file = Flatten(<<ScenarioFrame, EmptyFrame>>)
    /\ args = ScenarioArgs
    /\ written = <<"200.0 1.0 1.0 1.0", "100.0 0.0 0.0 0.0">>

ScenarioRun ==
    /\ file = Flatten(<<ScenarioFrame>>)
    /\ args = ScenarioArgs
    /\ pc = "done"

(* C4 as stated: the scenario's output is the single line 200 1 1 1 *)
C4_ScenarioPrintsIntegers == ScenarioRun => written = <<"200 1 1 1">>

(* C4, amended: the scenario's output is the single line                   *)
(* 200.0 1.0 1.0 1.0: the scaled time and the normalised counts are floats *)
(* and are printed as floats.                                              *)
C4_ScenarioPrintsFloats == ScenarioRun => written = <<"200.0 1.0 1.0 1.0">>

C4_Witness == ScenarioRun /\ Len(written) = 1

Returned == pc \in {"tally", "tally_loop", "decorate", "output", "done"}

(* The lines of the file that the frames of traj account for *)
RECURSIVE LinesOf(_)
LinesOf(tr) ==
    IF tr = <<>> THEN 0 ELSE 2 + Len(Head(tr).atoms) + LinesOf(Tail(tr))

(* C5: parse_traj returns only at the end of the file met where a header   *)
(* line is due, with every frame holding the atoms its header declares;    *)
(* the end of the file met where the comment line or an atom line is due   *)
(* is an error, which leaves the trajectory as it was and nothing written. *)
C5_Returns ==
    Returned =>
        /\ pos = Len(file) + 1
        /\ LinesOf(traj) = Len(file)
        /\ \A k \in 1..Len(traj) :
              LET h == file[LinesOf(SubSeq(traj, 1, k - 1)) + 1]
              IN  Len(h) = 1 /\ (h[1].val = Len(traj[k].atoms) \/ h[1].val <= 0)

C5_Fails ==
    (pc \in {"comment", "atoms"} /\ AtEOF) =>
        /\ pc' = "error"
        /\ err' = "IndexError"
        /\ traj' = traj
        /\ written' = <<>>

C5_TruncatedFrameFails ==
    /\ [](C5_Returns /\ (pc = "error" => written = <<>>))
    /\ [][C5_Fails]_vars

C5_Witness ==
    /\ pc = "error"
    /\ AtEOF
    /\ file = SubSeq(Flatten(<<EmptyFrame, ScenarioFrame>>), 1, 6)
    /\ Len(traj) = 1

(* C6 as stated: no frame the parser produces holds an atom with fewer     *)
(* than three position components.                                         *)
C6_ShortAtomLineFails ==
    \A k \in 1..Len(traj) :
        \A i \in 1..Len(traj[k].atoms) : Len(traj[k].atoms[i].pos) >= 3

(* C7: with an axis that is none of the labels, tally_atoms fails with the *)
(* KeyError of the table at its first step, for every trajectory: it       *)
(* never enters the loop over the frames and never tallies one.            *)
C7_UnknownAxisFailsFirst ==
    args.axis \notin AxisLabels =>
        /\ raw_tally = <<>>
        /\ \/ pc = "tally"
           \/ pc = "error" /\ err = "KeyError"

C7_Witness ==
    args.axis = "W" /\ pc = "error" /\ err = "KeyError" /\ traj = <<>>

-----------------------------------------------------------------------------
(* Properties of the region scan *)

StrictlyDescending(bs) == \A i \in 1..(Len(bs) - 1) : bs[i] > bs[i + 1]
NonIncreasing(bs) == \A i \in 1..(Len(bs) - 1) : bs[i] >= bs[i + 1]

CountNotBelow(c, bs) == Cardinality({i \in 1..Len(bs) : c <= bs[i]})

ScanAgreesWithCount(bs) ==
    \A c \in CoordVals : Region(c, bs) = CountNotBelow(c, bs)

ScanIsMonotone(bs) ==
    \A c1, c2 \in CoordVals :
        c1 <= c2 => Region(c1, bs) >= Region(c2, bs)

ScanPartitions(bs) == \A c \in CoordVals : Region(c, bs) \in 0..Len(bs)

(* C9 as stated: a strictly descending list makes the scan equal the total *)
(* count, and the two agree for every coordinate only then.                *)
C9_AgreeOnlyIfStrictlyDescending ==
    scan_pc = "done" =>
        /\ StrictlyDescending(boundaries) =>
              /\ region = CountNotBelow(coord, boundaries)
              /\ ScanAgreesWithCount(boundaries)
              /\ ScanPartitions(boundaries)
              /\ ScanIsMonotone(boundaries)
        /\ ScanAgreesWithCount(boundaries) => StrictlyDescending(boundaries)

(* C9, amended: a strictly descending list makes the scan equal the total  *)
(* count of boundaries not below the coordinate, puts every coordinate in  *)
(* one of the len+1 regions and makes the region non-increasing in the     *)
(* coordinate; the scan and the count agree for every coordinate exactly   *)
(* when the list is non-increasing (equal neighbours allowed).             *)
C9_AgreeIffNonIncreasing ==
    scan_pc = "done" =>
        /\ StrictlyDescending(boundaries) =>
              /\ region = CountNotBelow(coord, boundaries)
              /\ ScanAgreesWithCount(boundaries)
              /\ ScanPartitions(boundaries)
              /\ ScanIsMonotone(boundaries)
        /\ ScanAgreesWithCount(boundaries) <=> NonIncreasing(boundaries)
        /\ NonIncreasing(boundaries) =>
              region = CountNotBelow(coord, boundaries)

C9_Witness ==
    /\ scan_pc = "done"
    /\ boundaries = <<5, 5>>
    /\ coord = 5
    /\ region = 2
    /\ ScanAgreesWithCount(boundaries)

-----------------------------------------------------------------------------
(* Properties of catdumps.py *)

UndefinedRef ==
    /\ cat_pc = "subst"
    /\ HasMatch(curr)
    /\ MatchName(curr) \notin DOMAIN self_vars

(* C8 as stated: a reference to an undefined name is reported, the token   *)
(* is left in the string and subst_vars returns it, so that __init__ goes  *)
(* on with the next line.                                                  *)
C8_UndefinedRefReturns ==
    [][UndefinedRef =>
          /\ cat_pc' = "init"
          /\ dumps' = Append(dumps, curr)]_vars

IsVariableLine(l) == Len(l) >= 2 /\ l[1] = VARIABLE_
IsDumpLine(l) == Len(l) >= 1 /\ l[1] = DUMP_

(* The mapping the variable lines before line k declare, the last          *)
(* declaration of a name winning                                           *)
VarsBefore(k) ==
    LET decl(n) == {i \in 1..(k - 1) :
                       IsVariableLine(script[i]) /\ script[i][2] = n}
        last(n) == CHOOSE i \in decl(n) : \A j \in decl(n) : j <= i
        names == {script[i][2] :
                     i \in {i \in 1..(k - 1) : IsVariableLine(script[i])}}
    IN  [n \in names |-> script[last(n)][Len(script[last(n)])]]

(* The line of the k-th dump command *)
DumpLineNo(k) ==
    CHOOSE i \in 1..Len(script) :
        /\ IsDumpLine(script[i])
        /\ Cardinality({j \in 1..i : IsDumpLine(script[j])}) = k

(* The names referenced in s, and those referenced through the values *)
RefNames(s) ==
    {SubSeq(s, i + 2, NameEnd(s, i) - 1) :
        i \in {i \in 1..Len(s) : MatchAt(s, i)}}

RefsOf(m, S) ==
    UNION {IF n \in DOMAIN m THEN RefNames(m[n]) ELSE {} : n \in S}

RECURSIVE Closure(_, _, _)
Closure(m, S, k) ==
    IF k = 0 THEN S ELSE Closure(m, S \cup RefsOf(m, S), k - 1)

Referenced(m, s) == Closure(m, RefNames(s), Cardinality(DOMAIN m) + 1)

AllDefined(m, s) == Referenced(m, s) \subseteq DOMAIN m

Acyclic(m, s) ==
    \A n \in Referenced(m, s) :
        n \notin Closure(m, RefsOf(m, {n}), Cardinality(DOMAIN m) + 1)

(* "$", "{" and "}" occur in s only as parts of complete references *)
WholeRefs(s) ==
    \A i \in 1..Len(s) :
        s[i] \in {"$", "{", "}"} =>
            \E j \in 1..i : MatchAt(s, j) /\ i <= NameEnd(s, j)

WholeRefsAll(m, s) ==
    /\ WholeRefs(s)
    /\ \A n \in Referenced(m, s) \cap DOMAIN m : WholeRefs(m[n])

(* s with every reference replaced by the expansion of its variable *)
RECURSIVE Expand(_, _)
Expand(m, s) ==
    IF s = <<>> THEN <<>>
    ELSE IF MatchAt(s, 1)
    THEN Expand(m, m[SubSeq(s, 3, NameEnd(s, 1) - 1)]) \o
         Expand(m, SubSeq(s, NameEnd(s, 1) + 1, Len(s)))
    ELSE <<Head(s)>> \o Expand(m, Tail(s))

(* C10 as stated: with every referenced name defined and no variable       *)
(* leading back to itself, subst_vars terminates and its result holds no   *)
(* reference; the mapping is that of the variable lines before the dump.   *)
C10_SubstTerminates ==
    /\ [](\A k \in 1..Len(dumps) : ~HasMatch(dumps[k]))
    /\ [](cat_pc = "subst" => self_vars = VarsBefore(line_no))
    /\ (/\ cat_pc = "subst"
        /\ AllDefined(self_vars, curr)
        /\ Acyclic(self_vars, curr)) ~> (cat_pc # "subst")

WholePre(m, s) == WholeRefsAll(m, s) /\ AllDefined(m, s) /\ Acyclic(m, s)

(* C10, amended: the same for strings and values in which "$", "{" and "}" *)
(* occur only as parts of complete references: subst_vars terminates, and  *)
(* every dump recorded is the full expansion of its path, references       *)
(* brought in by values included, under the mapping of the variable lines  *)
(* before its dump line, the last declaration of a name winning.           *)
C10_SubstTerminatesOnWholeRefs ==
    /\ [](\A k \in 1..Len(dumps) :
            LET i == DumpLineNo(k)
                m == VarsBefore(i)
                s == script[i][Len(script[i])]
            IN  /\ ~HasMatch(dumps[k])
                /\ WholePre(m, s) => dumps[k] = Expand(m, s))
    /\ [](cat_pc = "subst" => self_vars = VarsBefore(line_no))
    /\ (cat_pc = "subst" /\ WholePre(self_vars, curr)) ~> (cat_pc # "subst")

C10_Witness ==
    /\ cat_pc = "done"
    /\ script = << VariableLine(<<"b">>, <<"y">>),
                   VariableLine(<<"a">>, <<"x">> \o RefB),
                   DumpLine(RefA \o <<".">> \o RefB \o RefA) >>
    /\ dumps = << <<"x", "y", ".", "y", "x", "y">> >>

=============================================================================
